---------------------------- MODULE Spec2Model ----------------------------
(***************************************************************************)
(* Volatility-Adjusted Risk Suite: the risk engine (src/src/risk_engine.py) *)
(* the configuration manager (src/src/config_manager.py), the data loader   *)
(* (src/src/data_loader.py) and the orchestrating loop of src/main.py.      *)
(*                                                                          *)
(* Numbers.  Python floats are modelled as exact fixed-point integers:      *)
(*   - a volatility is an integer number of 1/VolScale (basis points);      *)
(*   - a multiplier and max_crash_cap are integers of 1/MultScale;          *)
(*   - a close price is a whole number of price units;                      *)
(*   - a projected (safe) price is an integer of 1/PriceScale price units,  *)
(*     PriceScale = VolScale * MultScale, so cycle_high * (1 - crash) is    *)
(*     exact;                                                               *)
(*   - lookback_years is an integer of 1/YearScale, percentile of 1/PctScale.*)
(* A float that may be NaN, a value that may be None and the strings of a   *)
(* result row are tagged records (NaN, None, Num(n), Str(s)), so a NaN is   *)
(* never confused with a zero.  Binary rounding of floats is not modelled.  *)
(***************************************************************************)
EXTENDS Integers, Sequences, FiniteSets, TLC

VARIABLES
    file,             \* config.json on disk: [status, data]
    config,           \* RiskConfig.data once loaded (main.py:29), else None
    pc,               \* position of main(), or of the engine call under test
    idx,              \* position of the for loop in config.assets (main.py:40)
    current_results,  \* main.py:36
    drift_results,    \* main.py:37
    history,          \* each ticker handed to loader.fetch_history so far
                      \* (main.py:43) and how its iteration ended
    locals,           \* the loop body's local variables after the last iteration
    saved,            \* whether the report file was written (main.py:134-137)
    args,             \* arguments of the engine call under test
    ret               \* its return value

vars == <<file, config, pc, idx, current_results, drift_results, history,
          locals, saved, args, ret>>

---------------------------------------------------------------------------
(* Units and tagged values *)

VolScale == 100 * 100
MultScale == 10 * 10
PriceScale == VolScale * MultScale
YearScale == 2 * 5
PctScale == 10 * 10

NaN == [tag |-> "nan"]
None == [tag |-> "none"]
Num(n) == [tag |-> "num", v |-> n]
Str(s) == [tag |-> "str", s |-> s]
Rat(n, d) == [tag |-> "rat", num |-> n, den |-> d]

\* pd.isna: true of NaN and of None
isna(x) == x.tag \in {"nan", "none"}

\* dict.get(key, default)
Get(d, k, default) == IF k \in DOMAIN d THEN d[k] ELSE default

EmptyDict == [k \in {} |-> 0]

---------------------------------------------------------------------------
(* src/src/config_manager.py *)

\* RiskConfig.assets
assets(data) == Get(data, "assets", <<>>)

\* RiskConfig.settings
settings(data) == Get(data, "settings", EmptyDict)

\* RiskConfig.multipliers
multipliers(data) == Get(data, "risk_multipliers", EmptyDict)

---------------------------------------------------------------------------
(* src/src/risk_engine.py: compute_safe_prices *)

DefaultMaxCap == 85

\* f"{name} Price"
PriceKey(name) == name \o " Price"

\* crash = vol * mult, in 1/PriceScale
CrashOf(vol, mult) == vol * mult

\* A mutant of CapCrash: the cap is never applied.
CapCrashUncapped(crash, max_cap) == crash

\* A mutant of CapCrash: the comparison is reversed (max instead of min).
CapCrashReversed(crash, max_cap) == IF crash < max_cap THEN max_cap ELSE crash

\* if crash > max_cap: crash = max_cap
CapCrash(crash, max_cap) == IF crash > max_cap THEN max_cap ELSE crash

\* A mutant of NanGuardValue: an undefined volatility projects to zero.
NanGuardZero == Num(0)

\* res[f"{name} Price"] = None
NanGuardValue == None

\* RiskEngine.compute_safe_prices(vol, cycle_high); vol is tagged, cycle_high
\* a whole number of price units; the prices returned are in 1/PriceScale.
compute_safe_prices(data, vol, cycle_high) ==
    LET mults == multipliers(data)
        names == DOMAIN mults
        keys == {PriceKey(n) : n \in names}
        nameOf(k) == CHOOSE n \in names : PriceKey(n) = k
    IN  IF isna(vol)
        THEN [k \in keys |-> NanGuardValue]
        ELSE LET max_cap == Get(settings(data), "max_crash_cap", DefaultMaxCap) * VolScale
                 crash(n) == CapCrash(CrashOf(vol.v, mults[n]), max_cap)
             IN  [k \in keys |-> Num(cycle_high * (PriceScale - crash(nameOf(k))))]

---------------------------------------------------------------------------
(* src/src/risk_engine.py: get_annual_days, calculate_volatility *)

DefaultCryptoDays == 365
DefaultStockDays == 252
DefaultVolWindow == 30
MinPeriods == 5

Max(a, b) == IF a >= b THEN a ELSE b
Min(a, b) == IF a <= b THEN a ELSE b

\* RiskEngine.get_annual_days(ticker); hyphenated says whether "-" in ticker
get_annual_days(data, hyphenated) ==
    IF hyphenated
    THEN Get(settings(data), "crypto_trading_days", DefaultCryptoDays)
    ELSE Get(settings(data), "stock_trading_days", DefaultStockDays)

\* log_ret = np.log(prices / prices.shift(1)): the entry at position t is a
\* finite number exactly when both closes are positive; it is NaN at the
\* first position, and NaN or infinite when a close is not positive (rolling
\* treats an infinite entry as missing).
ValidReturn(prices, t) == t > 1 /\ prices[t] > 0 /\ prices[t - 1] > 0

\* The number of valid observations in the trailing window ending at t
ValidCount(prices, window, t) ==
    Cardinality({u \in Max(1, t - window + 1)..t : ValidReturn(prices, u)})

\* A mutant of RollingMinPeriods: min_periods left at its default, the window.
RollingMinPeriodsDefault(window) == window

\* rolling(window=window, min_periods=5)
RollingMinPeriods(window) == MinPeriods

Raised(exc) == [tag |-> "raise", exc |-> exc]

\* rolling() raises ValueError when min_periods exceeds the window
VolatilityRaises(data) ==
    LET window == Get(settings(data), "volatility_window", DefaultVolWindow)
    IN  RollingMinPeriods(window) > window

\* RiskEngine.calculate_volatility(prices, annual_days).  prices is a
\* sequence of closes (whole price units; 0 stands for a non-positive close).
\* The arithmetic of std() * sqrt(annual_days) is not computed: stdv[t] is
\* the value it yields at position t (a non-negative number of 1/VolScale),
\* supplied by the caller of the model; which entries are defined is
\* computed as rolling() computes it.  rolling() raises ValueError when
\* min_periods exceeds the window.
calculate_volatility(data, prices, annual_days, stdv) ==
    LET window == Get(settings(data), "volatility_window", DefaultVolWindow)
        min_periods == RollingMinPeriods(window)
    IN  IF VolatilityRaises(data)
        THEN Raised("ValueError")
        ELSE [t \in 1..Len(prices) |->
                IF ValidCount(prices, window, t) >= min_periods
                THEN Num(stdv[t])
                ELSE NaN]

---------------------------------------------------------------------------
(* src/src/risk_engine.py: calculate_dynamic_floor *)

DefaultLookbackYears == 50
DefaultPercentile == 25
FloorFallback == 5000

\* round(n / d): to the nearest integer, ties to even (d > 0)
IntRound(n, d) ==
    LET q == n \div d
        r == n % d
    IN  IF 2 * r > d THEN q + 1
        ELSE IF 2 * r < d THEN q
        ELSE IF q % 2 = 0 THEN q ELSE q + 1

\* A mutant of IntTrunc: the quotient is rounded to the nearest integer
\* instead of truncated.
IntTruncToNearest(n, d) == IntRound(n, d)

\* int(n / d): truncation toward zero
IntTrunc(n, d) == IF n >= 0 THEN n \div d ELSE -((-n) \div d)

\* Series.tail(n): the last n entries; none for n = 0; for n < 0 all but
\* the first -n entries.
TailN(s, n) ==
    LET len == Len(s)
        from == IF n > 0 THEN Max(1, len - n + 1)
                ELSE IF n = 0 THEN len + 1
                ELSE Min(len + 1, 1 - n)
    IN  [i \in 1..(len - from + 1) |-> s[from + i - 1]]

\* The defined entries of a series, in order
RECURSIVE Defined(_)
Defined(s) ==
    IF s = <<>> THEN <<>>
    ELSE IF isna(Head(s)) THEN Defined(Tail(s))
    ELSE <<Head(s).v>> \o Defined(Tail(s))

\* Series.quantile(q), linear interpolation between ranks, undefined entries
\* ignored; NaN when no entry is defined.  q is in 1/PctScale.  The
\* interpolation is exact when the entries are multiples of PctScale.
Quantile(s, q) ==
    LET x == SortSeq(Defined(s), <)
        n == Len(x)
        pos == q * (n - 1)
        lo == pos \div PctScale
        frac == pos % PctScale
    IN  IF n = 0 THEN NaN
        ELSE IF frac = 0 THEN Num(x[lo + 1])
        ELSE Num(x[lo + 1] + ((x[lo + 2] - x[lo + 1]) * frac) \div PctScale)

\* window_size = int(years * annual_days)
WindowSize(data, annual_days) ==
    LET cfg == Get(settings(data), "dynamic_floor", EmptyDict)
        years == Get(cfg, "lookback_years", DefaultLookbackYears)
    IN  IntTrunc(years * annual_days, YearScale)

\* RiskEngine.calculate_dynamic_floor(rolling_vol, annual_days)
calculate_dynamic_floor(data, rolling_vol, annual_days) ==
    LET cfg == Get(settings(data), "dynamic_floor", EmptyDict)
        percentile == Get(cfg, "percentile", DefaultPercentile)
        window_size == WindowSize(data, annual_days)
    IN  IF Len(rolling_vol) < window_size
        THEN Num(FloorFallback)
        ELSE Quantile(TailN(rolling_vol, window_size), percentile)

---------------------------------------------------------------------------
(* src/main.py: the loop body of main() *)

HyphenatedTickers == {"BTC-USD"}

\* "-" in ticker
Hyphenated(ticker) == ticker \in HyphenatedTickers

\* Series.max() over a non-empty series of closes
SeriesMax(s) == CHOOSE m \in {s[i] : i \in 1..Len(s)} : \A i \in 1..Len(s) : s[i] <= m

\* Series.idxmax() of prices.tail(n): the date (position in prices) of the
\* first occurrence of the maximum
TailIdxMax(prices, n) ==
    LET w == TailN(prices, n)
        off == Len(prices) - Len(w)
        first == CHOOSE i \in 1..Len(w) :
                    /\ w[i] = SeriesMax(w)
                    /\ \A j \in 1..(i - 1) : w[j] # SeriesMax(w)
    IN  off + first

\* Series.asof(date): the last defined entry at or before date, else NaN
Asof(series, date) ==
    LET known == {t \in DOMAIN series : t <= date /\ ~isna(series[t])}
    IN  IF known = {} THEN NaN
        ELSE series[CHOOSE t \in known : \A u \in known : u <= t]

\* A mutant of AthVolLookup: the volatility is taken at the latest date.
AthVolLatest(vol_series, ath_date) == vol_series[Len(vol_series)]

\* try: vol_series.loc[ath_date]  except KeyError: vol_series.asof(ath_date)
AthVolLookup(vol_series, ath_date) ==
    IF ath_date \in DOMAIN vol_series
    THEN vol_series[ath_date]
    ELSE Asof(vol_series, ath_date)

\* A mutant of EffectiveVol: the floor replaces the raw volatility.
EffectiveVolFloorOnly(raw_vol, floor) == IF isna(floor) THEN raw_vol ELSE floor

\* max(raw_vol, floor): Python's max returns its first argument unless the
\* second compares greater; a NaN never compares greater.
EffectiveVol(raw_vol, floor) ==
    IF floor.tag = "num" /\ floor.v > raw_vol.v THEN floor ELSE raw_vol

\* A mutant of IsFloored: the flag is raised when the two are equal too.
IsFlooredOrEqual(effective_vol, raw_vol) == effective_vol.v >= raw_vol.v

\* is_floored = effective_vol > raw_vol
IsFloored(effective_vol, raw_vol) == effective_vol.v > raw_vol.v

RECURSIVE GCD(_, _)
GCD(a, b) == IF b = 0 THEN a ELSE GCD(b, a % b)

\* f"SAFE (+{margin:.1%})": the margin rounded to a tenth of a percent (the
\* fraction is reduced first, to keep the product small)
Safe(margin) ==
    LET g == GCD(margin.num, margin.den)
    IN  [tag |-> "safe",
         permille |-> IntRound((margin.num \div g) * 1000, margin.den \div g)]

Checked(verdict, margin) == [tag |-> "ok", verdict |-> verdict, margin |-> margin]

\* A mutant of SurvivalCheck: a price equal to the safe price counts as safe.
SurvivalCheckStrict(current_price, hk_price) ==
    IF isna(hk_price) THEN Checked(Str("Insufficient History"), None)
    ELSE IF current_price * PriceScale < hk_price.v
    THEN Checked(Str("LIQUIDATED"), None)
    ELSE IF current_price = 0 THEN Raised("ZeroDivisionError")
    ELSE LET margin == Rat(current_price * PriceScale - hk_price.v,
                           current_price * PriceScale)
         IN  Checked(Safe(margin), margin)

\* The survival check of main.py:109-118; hk_price is in 1/PriceScale,
\* current_price in whole price units.  The division raises when
\* current_price is zero.
SurvivalCheck(current_price, hk_price) ==
    IF isna(hk_price) THEN Checked(Str("Insufficient History"), None)
    ELSE IF current_price * PriceScale <= hk_price.v
    THEN Checked(Str("LIQUIDATED"), None)
    ELSE IF current_price = 0 THEN Raised("ZeroDivisionError")
    ELSE LET margin == Rat(current_price * PriceScale - hk_price.v,
                           current_price * PriceScale)
         IN  Checked(Safe(margin), margin)

\* row_curr of main.py:69-81
RowCurr(ticker, current_price, cycle_high, raw_vol, floor, is_floored, safe_prices) ==
    safe_prices @@
    ( "Ticker" :> Str(ticker)
      @@ "Price" :> Num(current_price)
      @@ "Cycle High (1y)" :> Num(cycle_high)
      @@ "Drawdown" :> Rat(current_price - cycle_high, cycle_high)
      @@ "Raw Vol" :> raw_vol
      @@ "Dynamic Floor" :> floor
      @@ "Floor Active?" :> Str(IF is_floored THEN "YES" ELSE "No") )

\* row_drift of main.py:98-118
RowDrift(ticker, ath_date, ath_price, ath_vol, current_price, hist_limits, verdict) ==
    ("SURVIVAL CHECK" :> verdict)
    @@ [k \in {"ATH " \o h : h \in DOMAIN hist_limits} |->
            hist_limits[CHOOSE h \in DOMAIN hist_limits : "ATH " \o h = k]]
    @@ ( "Ticker" :> Str(ticker)
         @@ "ATH Date" :> Num(ath_date)
         @@ "ATH Price" :> Num(ath_price)
         @@ "ATH Vol" :> ath_vol
         @@ "Current Price" :> Num(current_price) )

\* A mutant of AppendRow: a ticker already in the table is not added again.
AppendRowOnce(results, row) ==
    IF \E i \in 1..Len(results) : results[i]["Ticker"] = row["Ticker"]
    THEN results
    ELSE Append(results, row)

\* list.append(row)
AppendRow(results, row) == Append(results, row)

\* One iteration of the loop body after a successful fetch (main.py:47-120).
\* prices is the Close column, dated 1..Len(prices); stdv is the arithmetic
\* of the rolling standard deviation (see calculate_volatility).  The result
\* says how the iteration ends ("skip": continue at main.py:58; "ok": both
\* rows appended; "raise": an exception leaves main()), the two tables as the
\* iteration leaves them, and the local variables it has assigned.
Analyse(data, curr, drift, ticker, prices, stdv) ==
    LET annual_days == get_annual_days(data, Hyphenated(ticker))
        vol_series == calculate_volatility(data, prices, annual_days, stdv)
        current_price == prices[Len(prices)]
        raw_vol == vol_series[Len(vol_series)]
        floor == calculate_dynamic_floor(data, vol_series, annual_days)
        effective_vol == EffectiveVol(raw_vol, floor)
        is_floored == IsFloored(effective_vol, raw_vol)
        lookback == settings(data)["lookback_days"]
        cycle_high == SeriesMax(TailN(prices, lookback))
        safe_prices == compute_safe_prices(data, effective_vol, cycle_high)
        row_curr == RowCurr(ticker, current_price, cycle_high, raw_vol, floor,
                            is_floored, safe_prices)
        curr1 == AppendRow(curr, row_curr)
        drift_days == settings(data)["drift_lookback_days"]
        ath_date == TailIdxMax(prices, drift_days)
        ath_price == SeriesMax(TailN(prices, drift_days))
        ath_vol == AthVolLookup(vol_series, ath_date)
        hist_limits == compute_safe_prices(data, ath_vol, ath_price)
        hk_price == Get(hist_limits, "Half Kelly Price", None)
        check == SurvivalCheck(current_price, hk_price)
        row_drift == RowDrift(ticker, ath_date, ath_price, ath_vol, current_price,
                              hist_limits, check.verdict)
        loc0 == [ticker |-> ticker, prices |-> prices]
        loc1 == [vol_series |-> vol_series, raw_vol |-> raw_vol] @@ loc0
        loc2 == [floor |-> floor, effective_vol |-> effective_vol] @@ loc1
        loc3 == [cycle_high |-> cycle_high] @@ loc2
        loc4 == [ath_date |-> ath_date, ath_vol |-> ath_vol, hk_price |-> hk_price] @@ loc3
        out(outcome, c, d, l) ==
            [outcome |-> outcome, curr |-> c, drift |-> d, locals |-> l]
    IN  IF VolatilityRaises(data) THEN out("raise", curr, drift, loc0)
        ELSE IF isna(raw_vol) THEN out("skip", curr, drift, loc1)
        ELSE IF "lookback_days" \notin DOMAIN settings(data)
        THEN out("raise", curr, drift, loc2)
        ELSE IF cycle_high = 0 THEN out("raise", curr, drift, loc3)
        ELSE IF "drift_lookback_days" \notin DOMAIN settings(data)
        THEN out("raise", curr1, drift, loc3)
        ELSE IF check.tag = "raise" THEN out("raise", curr1, drift, loc4)
        ELSE out("ok", curr1, AppendRow(drift, row_drift),
                 [margin |-> check.margin] @@ loc4)

---------------------------------------------------------------------------
(* src/main.py: main() as a state machine *)

\* std() * sqrt(annual_days) at each date of a series of n closes, each drawn
\* from V.  At a date t <= MinPeriods fewer than MinPeriods returns exist, the
\* entry is undefined and the value is never read: it is fixed at 0.
Oracles(n, V) ==
    {[t \in 1..n |-> IF t \in DOMAIN f THEN f[t] ELSE 0] :
        f \in [(MinPeriods + 1)..n -> V]}

Logged(ticker, outcome) == [ticker |-> ticker, outcome |-> outcome]

\* main.py:27-34, RiskConfig.__init__ and _load: the file is read and parsed
InitializeOk ==
    /\ pc = "start"
    /\ file.status = "ok"
    /\ config' = file.data
    /\ pc' = "loop"
    /\ idx' = 1
    /\ UNCHANGED <<file, current_results, drift_results, history, locals, saved,
                   args, ret>>

\* main.py:32-34: FileNotFoundError or JSONDecodeError is logged, main returns
InitializationFailed ==
    /\ pc = "start"
    /\ file.status \in {"missing", "malformed"}
    /\ pc' = "done"
    /\ UNCHANGED <<file, config, idx, current_results, drift_results, history,
                   locals, saved, args, ret>>

\* main.py:43-45, DataLoader.fetch_history returning None: the download is
\* empty or raised
FetchUnavailable ==
    /\ pc = "loop"
    /\ idx <= Len(assets(config))
    /\ history' = Append(history, Logged(assets(config)[idx], "unavailable"))
    /\ locals' = [ticker |-> assets(config)[idx]] @@ locals
    /\ idx' = idx + 1
    /\ UNCHANGED <<file, config, pc, current_results, drift_results, saved, args, ret>>

\* main.py:43-58: the fetch succeeds, the last volatility is NaN, continue
SkipInsufficient(feed, V) ==
    /\ pc = "loop"
    /\ idx <= Len(assets(config))
    /\ \E prices \in feed :
         \E stdv \in Oracles(Len(prices), V) :
            LET r == Analyse(config, current_results, drift_results,
                             assets(config)[idx], prices, stdv)
            IN  /\ r.outcome = "skip"
                /\ history' = Append(history, Logged(assets(config)[idx], "insufficient"))
                /\ locals' = r.locals @@ locals
    /\ idx' = idx + 1
    /\ UNCHANGED <<file, config, pc, current_results, drift_results, saved, args, ret>>

\* main.py:43-120: the fetch succeeds and both rows are appended
AnalyseAsset(feed, V) ==
    /\ pc = "loop"
    /\ idx <= Len(assets(config))
    /\ \E prices \in feed :
         \E stdv \in Oracles(Len(prices), V) :
            LET r == Analyse(config, current_results, drift_results,
                             assets(config)[idx], prices, stdv)
            IN  /\ r.outcome = "ok"
                /\ history' = Append(history, Logged(assets(config)[idx], "analysed"))
                /\ current_results' = r.curr
                /\ drift_results' = r.drift
                /\ locals' = r.locals @@ locals
    /\ idx' = idx + 1
    /\ UNCHANGED <<file, config, pc, saved, args, ret>>

\* main.py:43-120: the fetch succeeds and the loop body raises; nothing in
\* main() catches it, main() ends with the exception
AnalysisRaises(feed, V) ==
    /\ pc = "loop"
    /\ idx <= Len(assets(config))
    /\ \E prices \in feed :
         \E stdv \in Oracles(Len(prices), V) :
            LET r == Analyse(config, current_results, drift_results,
                             assets(config)[idx], prices, stdv)
            IN  /\ r.outcome = "raise"
                /\ history' = Append(history, Logged(assets(config)[idx], "raised"))
                /\ current_results' = r.curr
                /\ drift_results' = r.drift
                /\ locals' = r.locals @@ locals
    /\ pc' = "crashed"
    /\ UNCHANGED <<file, config, idx, saved, args, ret>>

\* main.py:123-125: no results, a warning, return
ReportNothing ==
    /\ pc = "loop"
    /\ idx > Len(assets(config))
    /\ current_results = <<>>
    /\ pc' = "done"
    /\ UNCHANGED <<file, config, idx, current_results, drift_results, history,
                   locals, saved, args, ret>>

\* main.py:127-137: the two sheets are written
ReportSaved ==
    /\ pc = "loop"
    /\ idx > Len(assets(config))
    /\ current_results # <<>>
    /\ saved' = TRUE
    /\ pc' = "done"
    /\ UNCHANGED <<file, config, idx, current_results, drift_results, history,
                   locals, args, ret>>

\* main.py:138-139: the file is open elsewhere, PermissionError is logged
ReportSinkBusy ==
    /\ pc = "loop"
    /\ idx > Len(assets(config))
    /\ current_results # <<>>
    /\ pc' = "done"
    /\ UNCHANGED <<file, config, idx, current_results, drift_results, history,
                   locals, saved, args, ret>>

---------------------------------------------------------------------------
(* Runs of main() over a list of assets *)

MaxAssets == 2

SeqsUpTo(S, n) == UNION {[1..k -> S] : k \in 0..n}

Tickers == {"BTC-USD", "SPY"}

RunMultipliers == ("Half Kelly" :> 150) @@ ("Full Kelly" :> 300)

\* The settings main() reads with [], each present or not; every other
\* setting is left to its default.
RunSettings ==
    { [lookback_days |-> 2, drift_lookback_days |-> 10],
      [drift_lookback_days |-> 10],
      [lookback_days |-> 2],
      EmptyDict }

RunFiles ==
    { [status |-> "ok",
       data |-> [assets |-> a, settings |-> st, risk_multipliers |-> RunMultipliers]] :
         a \in SeqsUpTo(Tickers, MaxAssets), st \in RunSettings }
    \cup { [status |-> "ok", data |-> EmptyDict],
           [status |-> "missing", data |-> EmptyDict],
           [status |-> "malformed", data |-> EmptyDict] }

\* What the provider may return for an asset: a new listing; a series ending
\* at its high; a high on the first day; a high followed by a fall to the
\* capped safe price; a fall below it; a last close of zero.
RunFeed ==
    { <<3, 3, 3>>,
      <<3, 3, 3, 3, 3, 3, 20>>,
      <<20, 3, 3, 3, 3, 3, 3>>,
      <<3, 3, 3, 3, 3, 20, 3>>,
      <<20, 20, 20, 20, 20, 20, 3>>,
      <<20, 20, 20, 20, 20, 20, 0, 0>> }

RunStd == {9000}

InitMain(files) ==
    /\ file \in files
    /\ config = None
    /\ pc = "start"
    /\ idx = 0
    /\ current_results = <<>>
    /\ drift_results = <<>>
    /\ history = <<>>
    /\ locals = EmptyDict
    /\ saved = FALSE
    /\ args = None
    /\ ret = None

Init == InitMain(RunFiles)

Next ==
    \/ InitializeOk
    \/ InitializationFailed
    \/ FetchUnavailable
    \/ SkipInsufficient(RunFeed, RunStd)
    \/ AnalyseAsset(RunFeed, RunStd)
    \/ AnalysisRaises(RunFeed, RunStd)
    \/ ReportNothing
    \/ ReportSaved
    \/ ReportSinkBusy

Spec == Init /\ [][Next]_vars

---------------------------------------------------------------------------
(* Runs of main() over one asset, with every short price history *)

MaxLen == 7

\* Every series of at most MaxLen positive closes, and each of them with its
\* last close replaced by zero
WidePrices == {3, 20}
WideStd == {2000, 9000}
WideFeed ==
    LET positive == SeqsUpTo(WidePrices, MaxLen) \ {<<>>}
    IN  positive \cup {[p EXCEPT ![Len(p)] = 0] : p \in positive}

\* A short dynamic-floor lookback (0.7 years of 3 or 5 trading days), so that
\* a short history reaches the percentile branch
ShortFloor ==
    [dynamic_floor |-> [lookback_years |-> 7, percentile |-> 25],
     crypto_trading_days |-> 3, stock_trading_days |-> 5]

AssetSettings ==
    { [lookback_days |-> lb, drift_lookback_days |-> dd] @@ fl :
        lb \in {1, 3}, dd \in {3, 10}, fl \in {EmptyDict, ShortFloor} }

AssetFiles ==
    { [status |-> "ok",
       data |-> [assets |-> <<t>>, settings |-> st, risk_multipliers |-> m]] :
         t \in HyphenatedTickers, st \in AssetSettings,
         m \in {RunMultipliers, "Full Kelly" :> 300} }
    \cup { [status |-> "missing", data |-> EmptyDict] }

InitAsset == InitMain(AssetFiles)

NextAsset ==
    \/ InitializeOk
    \/ InitializationFailed
    \/ FetchUnavailable
    \/ SkipInsufficient(WideFeed, WideStd)
    \/ AnalyseAsset(WideFeed, WideStd)
    \/ AnalysisRaises(WideFeed, WideStd)
    \/ ReportNothing
    \/ ReportSaved
    \/ ReportSinkBusy

SpecAsset == InitAsset /\ [][NextAsset]_vars

---------------------------------------------------------------------------
(* Inputs of the projector under test *)

ProjVols == {NaN, Num(-2000), Num(0), Num(2000), Num(5000), Num(9000), Num(100000)}
ProjHighs == {3, 20, 100}
ProjCaps == {50, 85, 100, 120}
ProjMultipliers ==
    { EmptyDict,
      "Half Kelly" :> 150,
      ("Half Kelly" :> 150) @@ ("Full Kelly" :> 300),
      ("Half Kelly" :> 100) @@ ("Quarter Kelly" :> 50),
      "Half Kelly" :> -50 }

ProjConfigs ==
    { [risk_multipliers |-> m, settings |-> EmptyDict] : m \in ProjMultipliers }
    \cup { [risk_multipliers |-> m, settings |-> [max_crash_cap |-> c]] :
             m \in ProjMultipliers, c \in ProjCaps }

Idle ==
    /\ file = [status |-> "ok", data |-> EmptyDict]
    /\ idx = 0
    /\ current_results = <<>>
    /\ drift_results = <<>>
    /\ history = <<>>
    /\ locals = EmptyDict
    /\ saved = FALSE

InitProj ==
    /\ Idle
    /\ config \in ProjConfigs
    /\ pc = "call"
    /\ args \in [vol : ProjVols, cycle_high : ProjHighs]
    /\ ret = None

CallComputeSafePrices ==
    /\ pc = "call"
    /\ ret' = compute_safe_prices(config, args.vol, args.cycle_high)
    /\ pc' = "returned"
    /\ UNCHANGED <<file, config, idx, current_results, drift_results, history,
                   locals, saved, args>>

NextProj == CallComputeSafePrices

SpecProj == InitProj /\ [][NextProj]_vars

---------------------------------------------------------------------------
(* The projector's claims *)

\* max_crash_cap as the projector reads it, in 1/MultScale
MaxCapOf(data) == Get(settings(data), "max_crash_cap", DefaultMaxCap)

\* The reference projection of the design: referencePrice * (1 - min(vol *
\* multiplier, maxCap)), in 1/PriceScale.
ReferencePrice(vol, mult, maxCap, referencePrice) ==
    referencePrice * (PriceScale - Min(vol * mult, maxCap * VolScale))

\* C1: compute_safe_prices agrees with the reference operator on every input.
\* Its keys are exactly the configured threshold names with " Price"
\* appended; if vol is NaN every key maps to None (never to a number);
\* otherwise each (name, multiplier) maps to
\* referencePrice * (1 - min(vol * multiplier, maxCap)).
C1_ProjectorAgreesWithReference ==
    pc = "returned" =>
        /\ DOMAIN ret = {PriceKey(n) : n \in DOMAIN multipliers(config)}
        /\ \A n \in DOMAIN multipliers(config) :
             IF args.vol = NaN
             THEN ret[PriceKey(n)] = None
             ELSE ret[PriceKey(n)] =
                    Num(ReferencePrice(args.vol.v, multipliers(config)[n],
                                       MaxCapOf(config), args.cycle_high))

\* C1 witness: vol = 10.0, multiplier 1.5, maxCap 0.85, referencePrice 100
\* has been projected, and the Half Kelly price is 15.0.
C1_Witness ==
    /\ pc = "returned"
    /\ args = [vol |-> Num(10 * VolScale), cycle_high |-> 100]
    /\ MaxCapOf(config) = 85
    /\ multipliers(config) = ("Half Kelly" :> 150)
    /\ ret = ("Half Kelly Price" :> Num(15 * PriceScale))

\* The configurations and inputs C2 speaks of: max_crash_cap in (0, 1],
\* every multiplier positive, a defined non-negative volatility and a
\* positive reference price.
AllowedProjection ==
    /\ pc = "returned"
    /\ MaxCapOf(config) > 0
    /\ MaxCapOf(config) <= MultScale
    /\ \A n \in DOMAIN multipliers(config) : multipliers(config)[n] > 0
    /\ args.vol.tag = "num"
    /\ args.vol.v >= 0
    /\ args.cycle_high > 0

\* C2 as stated: under an allowed configuration every projected price is
\* strictly positive and at most the reference price.
C2_Original_StrictlyPositive ==
    AllowedProjection =>
        \A k \in DOMAIN ret :
            /\ ret[k].v > 0
            /\ ret[k].v <= args.cycle_high * PriceScale

\* C2 amended: under an allowed configuration every projected price is at
\* least zero and at most the reference price, and it is strictly positive
\* whenever max_crash_cap is strictly below 1.
C2_NonNegativeAndBounded ==
    AllowedProjection =>
        \A k \in DOMAIN ret :
            /\ ret[k].tag = "num"
            /\ ret[k].v >= 0
            /\ ret[k].v <= args.cycle_high * PriceScale
            /\ (MaxCapOf(config) < MultScale => ret[k].v > 0)
            /\ ret[k].v >= args.cycle_high * (MultScale - MaxCapOf(config)) * VolScale

\* C2 witness: an allowed configuration with the cap 0.85 reached by
\* vol = 0.9 and multiplier 1.5: the price is 15% of the reference price.
C2_Witness ==
    /\ AllowedProjection
    /\ MaxCapOf(config) = 85
    /\ args.vol = Num(9000)
    /\ "Half Kelly Price" \in DOMAIN ret
    /\ multipliers(config)["Half Kelly"] = 150
    /\ ret["Half Kelly Price"] = Num(args.cycle_high * 15 * VolScale)

---------------------------------------------------------------------------
(* The volatility estimator under test *)

MaxVolLen == 7
MaxPosLen == 10

\* Closes: 0 stands for a non-positive close
VolPrices == {0, 3, 20}
PosPrices == {3, 20}
VolWindows == {3, 5, 30}
\* std() * sqrt(annual_days) where defined: the same value at every position
StdValues == {0, 2000}

VolSeriesInputs == SeqsUpTo(VolPrices, MaxVolLen) \cup SeqsUpTo(PosPrices, MaxPosLen)

InitVol ==
    /\ Idle
    /\ config \in {[settings |-> [volatility_window |-> w]] : w \in VolWindows}
                  \cup {[settings |-> EmptyDict]}
    /\ pc = "call"
    /\ \E p \in VolSeriesInputs, v \in StdValues :
          args = [prices |-> p, annual_days |-> DefaultCryptoDays,
                  stdv |-> [t \in 1..Len(p) |-> v]]
    /\ ret = None

CallCalculateVolatility ==
    /\ pc = "call"
    /\ ret' = calculate_volatility(config, args.prices, args.annual_days, args.stdv)
    /\ pc' = "returned"
    /\ UNCHANGED <<file, config, idx, current_results, drift_results, history,
                   locals, saved, args>>

NextVol == CallCalculateVolatility

SpecVol == InitVol /\ [][NextVol]_vars

VolWindowOf(data) == Get(settings(data), "volatility_window", DefaultVolWindow)

AllPositive(prices) == \A t \in 1..Len(prices) : prices[t] > 0

\* C4: for every series of positive prices and every window of at least
\* minSamples (5), the entry at position t (counted from 1) is undefined
\* exactly when fewer than minSamples log returns are available up to t,
\* that is when t - 1 < 5, whatever the window: a series of fewer than
\* minSamples prices is entirely undefined, and a series with at least
\* minSamples returns has a defined value at its final position even when
\* it is shorter than the window.
C4_UndefinedExactlyBelowMinSamples ==
    (pc = "returned" /\ AllPositive(args.prices) /\ VolWindowOf(config) >= MinPeriods) =>
        /\ DOMAIN ret = 1..Len(args.prices)
        /\ \A t \in 1..Len(args.prices) :
              /\ (ret[t] = NaN) <=> (t - 1 < MinPeriods)
              /\ (ret[t] # NaN) => ret[t] = Num(args.stdv[t])
        /\ (Len(args.prices) < MinPeriods => \A t \in DOMAIN ret : ret[t] = NaN)
        /\ (Len(args.prices) - 1 >= MinPeriods => ret[Len(args.prices)] # NaN)

\* C4 witness: ten positive prices under the window 30 have been estimated
\* and the final entry is defined.
C4_Witness ==
    /\ pc = "returned"
    /\ AllPositive(args.prices)
    /\ Len(args.prices) = 10
    /\ VolWindowOf(config) = 30
    /\ ret[10].tag = "num"
    /\ ret[5] = NaN

---------------------------------------------------------------------------
(* The dynamic floor under test *)

MaxFloorLen == 5

FloorVols == {NaN, Num(2000), Num(9000)}
FloorYears == {7, 10, 12}
FloorAnnualDays == {2, 3, 4, 5}
FloorPercentiles == {25, 50}

FloorConfigs ==
    {[settings |-> [dynamic_floor |-> [lookback_years |-> y, percentile |-> q]]] :
        y \in FloorYears, q \in FloorPercentiles}
    \cup {[settings |-> EmptyDict]}

InitFloor ==
    /\ Idle
    /\ config \in FloorConfigs
    /\ pc = "call"
    /\ args \in [rolling_vol : SeqsUpTo(FloorVols, MaxFloorLen),
                 annual_days : FloorAnnualDays]
    /\ ret = None

CallCalculateDynamicFloor ==
    /\ pc = "call"
    /\ ret' = calculate_dynamic_floor(config, args.rolling_vol, args.annual_days)
    /\ pc' = "returned"
    /\ UNCHANGED <<file, config, idx, current_results, drift_results, history,
                   locals, saved, args>>

NextFloor == CallCalculateDynamicFloor

SpecFloor == InitFloor /\ [][NextFloor]_vars

FloorYearsOf(data) ==
    Get(Get(settings(data), "dynamic_floor", EmptyDict), "lookback_years",
        DefaultLookbackYears)

FloorPercentileOf(data) ==
    Get(Get(settings(data), "dynamic_floor", EmptyDict), "percentile",
        DefaultPercentile)

\* round(lookbackYears * annualizationDays)
RoundedWindow == IntRound(FloorYearsOf(config) * args.annual_days, YearScale)

\* lookbackYears * annualizationDays with its fraction dropped
TruncatedWindow ==
    LET product == FloorYearsOf(config) * args.annual_days
    IN  (product - (product % YearScale)) \div YearScale

\* C3 as stated: the floor is exactly the fallback 0.50 whenever the series
\* length is less than round(lookbackYears * annualizationDays), and the
\* percentile of the most recent entries only once the length reaches that
\* rounded window size.
C3_Original_RoundedWindow ==
    pc = "returned" =>
        IF Len(args.rolling_vol) < RoundedWindow
        THEN ret = Num(FloorFallback)
        ELSE ret = Quantile(TailN(args.rolling_vol, RoundedWindow),
                            FloorPercentileOf(config))

\* C3 amended: the floor is exactly the fallback 0.50 whenever the series
\* length (undefined entries counted) is less than lookbackYears *
\* annualizationDays truncated to an integer, and otherwise it is the
\* percentile of the most recent truncated-window-size entries (NaN when
\* none of them is defined).
C3_TruncatedWindow ==
    pc = "returned" =>
        IF Len(args.rolling_vol) < TruncatedWindow
        THEN ret = Num(FloorFallback)
        ELSE ret = Quantile(TailN(args.rolling_vol, TruncatedWindow),
                            FloorPercentileOf(config))

\* C3 witness: lookbackYears = 0.7 and annualizationDays = 4 (2.8: truncated
\* 2, rounded 3) with a series of two entries: the floor is their 25th
\* percentile, 0.2 + 0.25 * (0.9 - 0.2) = 0.375, not the fallback.
C3_Witness ==
    /\ pc = "returned"
    /\ FloorYearsOf(config) = 7
    /\ FloorPercentileOf(config) = 25
    /\ args = [rolling_vol |-> <<Num(9000), Num(2000)>>, annual_days |-> 4]
    /\ Len(args.rolling_vol) < RoundedWindow
    /\ ret = Num(3750)

---------------------------------------------------------------------------
(* Claims about runs of main() *)

TickersOf(rows) == [i \in 1..Len(rows) |-> rows[i]["Ticker"].s]

IsAnalysed(h) == h.outcome = "analysed"

\* The tickers of the iterations that ran to their end, in order
AnalysedTickers == [i \in 1..Len(SelectSeq(history, IsAnalysed)) |->
                      SelectSeq(history, IsAnalysed)[i].ticker]

\* main() is at the head of the loop, or has left it normally
AtLoopBoundary == pc \in {"loop", "done"}

\* Both settings main() reads with [] are present
ConfigComplete(data) ==
    {"lookback_days", "drift_lookback_days"} \subseteq DOMAIN settings(data)

\* C5: every drift row's survival verdict is decided by exactly one of three
\* cases on its Half Kelly historical safe price: undefined (None, NaN or no
\* such key) gives "Insufficient History"; otherwise current price <= safe
\* price gives "LIQUIDATED", equality included; otherwise the verdict is SAFE
\* with margin (current - safe) / current, which is strictly positive.
C5_SurvivalVerdictCases ==
    \A i \in 1..Len(drift_results) :
        LET row == drift_results[i]
            hk == Get(row, "ATH Half Kelly Price", None)
            cur == row["Current Price"].v * PriceScale
            verdict == row["SURVIVAL CHECK"]
        IN  /\ hk.tag \in {"none", "nan"} => verdict = Str("Insufficient History")
            /\ (hk.tag = "num" /\ cur = hk.v) => verdict = Str("LIQUIDATED")
            /\ (hk.tag = "num" /\ cur < hk.v) => verdict = Str("LIQUIDATED")
            /\ (hk.tag = "num" /\ cur > hk.v) =>
                  /\ verdict.tag = "safe"
                  /\ verdict.permille >= 0
                  /\ (i = Len(drift_results) /\ history[Len(history)].outcome = "analysed") =>
                        /\ locals.margin = Rat(cur - hk.v, cur)
                        /\ locals.margin.num > 0
                        /\ locals.margin.den > 0

\* C5 witness: a drift row whose current price equals its Half Kelly
\* historical safe price exactly, with the verdict "LIQUIDATED".
C5_Witness ==
    \E i \in 1..Len(drift_results) :
        /\ "ATH Half Kelly Price" \in DOMAIN drift_results[i]
        /\ drift_results[i]["ATH Half Kelly Price"] =
              Num(drift_results[i]["Current Price"].v * PriceScale)
        /\ drift_results[i]["SURVIVAL CHECK"] = Str("LIQUIDATED")

\* C6 as stated (its safety part): whatever happens to one asset, with a
\* complete configuration, the run is never aborted.
C6_Original_NeverAborted ==
    (config # None /\ ConfigComplete(config)) => pc # "crashed"

\* C7 as stated: with a configuration file that cannot be read, or one that
\* lacks lookback_days or drift_lookback_days, no asset's data is fetched and
\* no record is produced.
C7_Original_NoProcessingOnConfigError ==
    (file.status # "ok" \/ ~ConfigComplete(file.data)) =>
        /\ history = <<>>
        /\ current_results = <<>>
        /\ drift_results = <<>>

\* C8: in every current-risk row the safe prices are those projected at
\* max(raw volatility, floor), which is never less than the raw volatility,
\* and the floor-active flag is YES exactly when floor > raw volatility.
C8_EffectiveVolIsMax ==
    \A i \in 1..Len(current_results) :
        LET row == current_results[i]
            raw == row["Raw Vol"]
            floor == row["Dynamic Floor"]
            eff == IF floor.v >= raw.v THEN floor.v ELSE raw.v
        IN  /\ raw.tag = "num"
            /\ floor.tag = "num"
            /\ eff >= raw.v
            /\ \A k \in DOMAIN compute_safe_prices(config, Num(eff), row["Cycle High (1y)"].v) :
                  row[k] = compute_safe_prices(config, Num(eff), row["Cycle High (1y)"].v)[k]
            /\ (row["Floor Active?"] = Str("YES")) <=> (floor.v > raw.v)
            /\ row["Floor Active?"] \in {Str("YES"), Str("No")}
            /\ (i = Len(current_results) /\ history[Len(history)].outcome = "analysed") =>
                  locals.effective_vol = Num(eff)

\* C8 witness: a current-risk row whose floor is active (floor 0.50 above a
\* raw volatility of 0.20) and whose Half Kelly price is projected at 0.50.
C8_Witness ==
    \E i \in 1..Len(current_results) :
        /\ current_results[i]["Raw Vol"] = Num(2000)
        /\ current_results[i]["Dynamic Floor"] = Num(FloorFallback)
        /\ current_results[i]["Floor Active?"] = Str("YES")
        /\ "Half Kelly Price" \in DOMAIN current_results[i]
        /\ current_results[i]["Half Kelly Price"] =
              Num(current_results[i]["Cycle High (1y)"].v * (PriceScale - FloorFallback * 150))

\* The date of the first maximum close among the last n closes
FirstHighDate(prices, n) ==
    CHOOSE d \in 1..Len(prices) :
        /\ d > Len(prices) - n
        /\ \A e \in 1..Len(prices) :
              e > Len(prices) - n =>
                  /\ prices[e] <= prices[d]
                  /\ (prices[e] = prices[d] => d <= e)

\* C9: for the asset just analysed, the volatility of its drift row is the
\* volatility-series entry at the date of the maximum close of the drift
\* window, never one of a later date; when that entry is undefined (as it is
\* whenever the high falls within the first minSamples dates) the drift row is
\* still emitted, with every historical safe price None and the verdict
\* "Insufficient History", and the run has not failed.
C9_DriftVolAtHighDate ==
    (history # <<>> /\ history[Len(history)].outcome = "analysed") =>
        LET row == drift_results[Len(drift_results)]
            high == FirstHighDate(locals.prices,
                                  settings(config)["drift_lookback_days"])
        IN  /\ pc # "crashed"
            /\ row["Ticker"] = Str(history[Len(history)].ticker)
            /\ row["ATH Date"] = Num(high)
            /\ row["ATH Price"] = Num(locals.prices[high])
            /\ row["ATH Vol"] = locals.vol_series[high]
            /\ (high <= MinPeriods => row["ATH Vol"] = NaN)
            /\ row["ATH Vol"] = NaN =>
                  /\ \A n \in DOMAIN multipliers(config) :
                        row["ATH " \o PriceKey(n)] = None
                  /\ row["SURVIVAL CHECK"] = Str("Insufficient History")

\* C9 witness: an analysed asset whose high falls on one of the first
\* minSamples dates, while volatility is defined at two later dates; its drift
\* row has an undefined volatility and the verdict "Insufficient History".
C9_Witness ==
    /\ history # <<>>
    /\ history[Len(history)].outcome = "analysed"
    /\ locals.ath_date <= MinPeriods
    /\ Len(locals.prices) >= MinPeriods + 2
    /\ locals.vol_series[Len(locals.prices)] # locals.vol_series[Len(locals.prices) - 1]
    /\ drift_results[Len(drift_results)]["ATH Vol"] = NaN
    /\ drift_results[Len(drift_results)]["SURVIVAL CHECK"] = Str("Insufficient History")
    /\ "Half Kelly" \in DOMAIN multipliers(config)

\* C10: at the head of the loop and after it, the two tables hold rows for the
\* same tickers in the same order; these are the tickers of the iterations
\* that were not skipped, in configured order; the iterations so far are
\* the first entries of the configured list, one each, and each has added at
\* most one row to each table.
C10_TablesAligned ==
    AtLoopBoundary =>
        /\ TickersOf(current_results) = TickersOf(drift_results)
        /\ TickersOf(current_results) = AnalysedTickers
        /\ Len(history) <= Len(assets(config))
        /\ \A i \in 1..Len(history) : history[i].ticker = assets(config)[i]
        /\ (pc = "loop" => Len(history) = idx - 1)
        /\ Len(current_results) <= Len(history)

\* C10 witness: two iterations are done, the first skipped for insufficient
\* data and the second analysed, and each table holds one row.
C10_Witness ==
    /\ pc = "loop"
    /\ Len(history) = 2
    /\ history[1].outcome = "insufficient"
    /\ history[2].outcome = "analysed"
    /\ Len(current_results) = 1
    /\ Len(drift_results) = 1

=============================================================================
